---- MODULE Spec2Model ----
(***************************************************************************)
(* Model of the ipfilter blocklist store (pkg/iplist/list.go), its         *)
(* loader GitHubLoader.Load with the per-file workers and the polling      *)
(* aggregation loop, the health endpoint (pkg/api Health) and the part of  *)
(* cmd/server.go that drives them.                                         *)
(***************************************************************************)
EXTENDS Integers, Sequences, FiniteSets, TLC

(***************************************************************************)
(* Program constants and bounds of the model.                              *)
(***************************************************************************)
\* list.go:21  const maxDownloadBytes int = 50_000_000
maxDownloadBytes == 50000000
\* list.go:187  ibuf := make([]byte, 1024)
ReadBufSize == 1024
\* list.go:242  ch := make(chan *net.IPNet, 100)
ChanCap == 100
\* time.Second, in nanoseconds (the unit of time.Duration)
Second == 1000000000

\* size handed to NewList: the number of slots of the store
Capacity == 2
\* settings.RefreshSeconds of config.json
RefreshSeconds == 1
\* the clock stops advancing at this many seconds
MaxTime == 3
\* number of concurrent reader tasks of the store
NumReaders == 1
\* the refresher makes at most this many Load calls
MaxLoads == 2

(***************************************************************************)
(* Time.  An instant is seconds plus nanoseconds; the zero time.Time is    *)
(* ZeroTime.  Durations are counted in nanoseconds, as in Go.              *)
(***************************************************************************)
ZeroTime == [s |-> 0, ns |-> 0]

TimeAdd(t, d) == [s |-> t.s + ((t.ns + d) \div Second), ns |-> (t.ns + d) % Second]

TimeAddSeconds(t, n) == [s |-> t.s + n, ns |-> t.ns]

TimeEqual(a, b) == a.s = b.s /\ a.ns = b.ns

TimeAfter(a, b) == a.s > b.s \/ (a.s = b.s /\ a.ns > b.ns)

(***************************************************************************)
(* Addresses.  A net.IP is a sequence of bytes (4 or 16), nil is <<>>.     *)
(* A *net.IPNet is a record of the masked base address and the mask        *)
(* (ones leading one-bits out of bits); the nil pointer is NilNet.         *)
(***************************************************************************)
NilIP == <<>>

NilNet == [IP |-> <<>>, ones |-> 0, bits |-> 0]

Pow2(n) == IF n = 0 THEN 1 ELSE IF n = 1 THEN 2 ELSE IF n = 2 THEN 4
           ELSE IF n = 3 THEN 8 ELSE IF n = 4 THEN 16 ELSE IF n = 5 THEN 32
           ELSE IF n = 6 THEN 64 ELSE IF n = 7 THEN 128 ELSE 256

\* number of one-bits of byte idx (1-based) of a mask with `ones` leading ones
MaskBits(ones, idx) ==
    LET left == ones - 8 * (idx - 1)
    IN  IF left >= 8 THEN 8 ELSE IF left <= 0 THEN 0 ELSE left

\* b & m for a mask byte m with k leading one-bits
AndMask(b, k) == b - (b % Pow2(8 - k))

\* net.IP.To4: the 4-byte form of an IPv4 or IPv4-mapped address, else nil
To4(ip) ==
    IF Len(ip) = 4 THEN ip
    ELSE IF Len(ip) = 16
            /\ \A k \in 1..10 : ip[k] = 0
            /\ ip[11] = 255 /\ ip[12] = 255
         THEN SubSeq(ip, 13, 16)
         ELSE NilIP

\* net.IPNet.Contains
IPNetContains(n, ip) ==
    LET x == IF To4(ip) # NilIP THEN To4(ip) ELSE ip
    IN  /\ Len(x) = Len(n.IP)
        /\ \A k \in 1..Len(x) :
              AndMask(n.IP[k], MaskBits(n.ones, k)) = AndMask(x[k], MaskBits(n.ones, k))

(***************************************************************************)
(* Lines of a blocklist file.  A line is a record: kind "comment" (it      *)
(* begins with #), "text" (not an address at all), or "addr" with the      *)
(* decimal fields of the address as written and the prefix length as       *)
(* written, NoPrefix when the line has no "/".                             *)
(***************************************************************************)
NoPrefix == -1

AddrLine(o, p) == [kind |-> "addr", octets |-> o, prefix |-> p]

CommentLine == [kind |-> "comment", octets |-> <<>>, prefix |-> NoPrefix]

TextLine == [kind |-> "text", octets |-> <<>>, prefix |-> NoPrefix]

\* net.ParseCIDR: the error result
ParseCIDRFails(octets, prefix) ==
    \/ Len(octets) \notin {4, 16}
    \/ \E k \in 1..Len(octets) : octets[k] < 0 \/ octets[k] > 255
    \/ prefix < 0
    \/ prefix > 8 * Len(octets)

\* net.ParseCIDR: the network, its base address masked by the prefix
ParseCIDRNet(octets, prefix) ==
    [IP   |-> [k \in 1..Len(octets) |-> AndMask(octets[k], MaskBits(prefix, k))],
     ones |-> prefix,
     bits |-> 8 * Len(octets)]

\* parseAddress: [net, err]; a line without "/" gets "/32" appended
parseAddress(line) ==
    LET prefix == IF line.prefix = NoPrefix THEN 32 ELSE line.prefix
    IN  IF line.kind # "addr" \/ ParseCIDRFails(line.octets, prefix)
        THEN [net |-> NilNet, err |-> "ParseErr"]
        ELSE [net |-> ParseCIDRNet(line.octets, prefix), err |-> "nil"]

(***************************************************************************)
(* Archives.  A file name is the sequence of its parts, the last being the *)
(* extension.  An archive entry has a name, a directory flag, whether      *)
(* file.Open succeeds on it, and its lines.  A response body has the       *)
(* number of bytes the upstream streams (len), the buffer length at which  *)
(* the buffered bytes form a ZIP archive (zipLen, 0 for never), the        *)
(* entries of that archive, the sizes in which the transport hands the     *)
(* bytes to Read (chunks), and the faults of the transport.                *)
(***************************************************************************)
\* settings.FileSuffixList of config.json
fileSuffixList == << <<".netset">>, <<".ipset">> >>

\* strings.HasSuffix
HasSuffix(name, suffix) ==
    /\ Len(suffix) <= Len(name)
    /\ SubSeq(name, Len(name) - Len(suffix) + 1, Len(name)) = suffix

Entry(name, isDir, openOK, lines) ==
    [name |-> name, isDir |-> isDir, openOK |-> openOK, lines |-> lines]

Good1 == AddrLine(<<10, 0, 0, 1>>, NoPrefix)
Good2 == AddrLine(<<192, 168, 0, 7>>, 24)
Good3 == AddrLine(<<172, 16, 0, 0>>, 12)
BadOctet == AddrLine(<<127, 0, 0, 256>>, NoPrefix)
BadPrefix == AddrLine(<<192, 168, 0, 0>>, 33)

\* addresses asked of the store
IP1 == <<10, 0, 0, 1>>
IP2 == <<192, 168, 0, 200>>
IPs == {NilIP, IP1, IP2}

Body(len, zipLen, files) ==
    [len |-> len, zipLen |-> zipLen, files |-> files, chunks |-> {ReadBufSize, 500},
     readErr |-> FALSE, eofWithData |-> FALSE, closeErr |-> FALSE]

\* several entries: a directory, a file of another suffix, two matching files
\* that mix comments, well-formed and malformed lines
MixedBody ==
    Body(1500, 1500,
         << Entry(<<"lists">>, TRUE, TRUE, <<>>),
            Entry(<<"README", ".md">>, FALSE, TRUE, <<Good3>>),
            Entry(<<"level1", ".netset">>, FALSE, TRUE, <<CommentLine, Good1, BadOctet>>),
            Entry(<<"level2", ".ipset">>, FALSE, TRUE, <<Good2>>) >>)

\* a matching file followed by a matching entry that cannot be opened
UnopenableBody ==
    Body(700, 700,
         << Entry(<<"level1", ".netset">>, FALSE, TRUE, <<Good1>>),
            Entry(<<"level3", ".netset">>, FALSE, FALSE, <<Good2>>) >>)

\* a matching file whose only malformed line is not the last one
CleanBody ==
    Body(700, 700,
         << Entry(<<"level1", ".netset">>, FALSE, TRUE, <<BadPrefix, TextLine, Good2>>) >>)

\* two matching files, the first with nothing but a malformed line
TwoFileBody ==
    Body(700, 700,
         << Entry(<<"level1", ".netset">>, FALSE, TRUE, <<BadOctet>>),
            Entry(<<"level2", ".ipset">>, FALSE, TRUE, <<Good2>>) >>)

\* one matching file with one well-formed line more than the store has slots
OverflowBody ==
    Body(700, 700,
         << Entry(<<"big", ".ipset">>, FALSE, TRUE,
                  [k \in 1..(Capacity + 1) |-> AddrLine(<<10, 0, 0, k>>, NoPrefix)]) >>)

\* an archive without any entry
EmptyBody == Body(700, 700, <<>>)

\* bytes that are no ZIP archive
CorruptBody == Body(700, 0, <<>>)

\* a transport that fails in the middle of the body
BrokenBody == [Body(1500, 1500, <<>>) EXCEPT !.readErr = TRUE]

\* a transport that hands the last bytes over together with io.EOF
EOFDataBody == [Body(700, 700, <<>>) EXCEPT !.eofWithData = TRUE]

\* a body whose Close reports an error
CloseErrBody == [Body(700, 700, <<>>) EXCEPT !.closeErr = TRUE]

\* the first buffer length at which the read loop stops by itself
TruncatedLen == ((maxDownloadBytes + ReadBufSize - 1) \div ReadBufSize) * ReadBufSize

\* more than maxDownloadBytes bytes, delivered in full reads, whose first
\* TruncatedLen bytes are a ZIP archive
HugeBody ==
    [Body(maxDownloadBytes + 2 * ReadBufSize, TruncatedLen,
          << Entry(<<"level1", ".netset">>, FALSE, TRUE, <<Good1>>) >>)
       EXCEPT !.chunks = {ReadBufSize}]

\* more than maxDownloadBytes bytes that never form an archive
HugeJunkBody ==
    [Body(maxDownloadBytes + 1, 0, <<>>) EXCEPT !.chunks = {ReadBufSize}]

\* the version tokens of HEAD responses; "" is a response without ETag
ETags == {"", "v1", "v2"}

\* the well-formed address lines of the matching, openable files of a body
Matches(e) == ~e.isDir /\ \E k \in 1..Len(fileSuffixList) : HasSuffix(e.name, fileSuffixList[k])

WellFormed(line) == line.kind = "addr" /\ parseAddress(line).err = "nil"

WellFormedLines(b) ==
    UNION { {<<f, k>> : k \in {j \in 1..Len(b.files[f].lines) : WellFormed(b.files[f].lines[j])}} :
            f \in {g \in 1..Len(b.files) : Matches(b.files[g]) /\ b.files[g].openOK} }

(***************************************************************************)
(* State.                                                                  *)
(***************************************************************************)
VARIABLES
    values,       \* List.values: the slots, NilNet for a nil slot
    Version,      \* List.Version
    LastRefresh,  \* List.LastRefresh
    lock,         \* List.lock: [w |-> a writer holds it, r |-> number of readers holding it]
    now,          \* the wall clock
    main,         \* cmd/server.go main and its refresher: [pc, timerAt, loads]
    nextRefresh,  \* the variable captured by the Health handler
    health,       \* the last answer of the Health handler: [status, at, seen]
    bodies,       \* the responses the upstream may give to a GET
    ld,           \* the locals of the running Load and Add call
    err,          \* the named result err of Load, shared with the workers
    wk,           \* the per-file worker goroutines: [pc, file, line, addr, sent]
    ch,           \* the buffered channel of each worker
    closed,       \* whether each channel is closed
    rd,           \* the reader tasks: [pc, op, ip, idx, result, genResults, overlap]
    gens,         \* the complete generations of the store that are current
    slotsTag      \* the version token of the refresh that wrote the slots

vars == <<values, Version, LastRefresh, lock, now, main, nextRefresh, health,
          bodies, ld, err, wk, ch, closed, rd, gens, slotsTag>>

storeVars == <<values, Version, LastRefresh, lock, gens, slotsTag>>
workerVars == <<wk, ch, closed>>
serverVars == <<now, nextRefresh, health, bodies>>

\* the most entries an archive of the model has
MaxFiles == 4
Workers == 1..MaxFiles
Readers == 1..NumReaders

Instant(sec) == [s |-> sec, ns |-> 0]

EmptySlots == [k \in 1..Capacity |-> NilNet]

\* sent: the values the worker has sent on its channel, in order
IdleWorker == [pc |-> "none", file |-> 0, line |-> 0, addr |-> NilNet, sent |-> <<>>]

\* genResults: what the call returns on each complete generation of the store
\* that was current while the call held the lock; overlap: an Add took the
\* write lock after the call was made; inRange: for a Contains call, whether
\* the address lies inside a range of each of those generations
IdleReader ==
    [pc |-> "idle", op |-> "none", ip |-> NilIP, idx |-> 0, result |-> 0, genResults |-> {},
     overlap |-> FALSE, inRange |-> {}]

\* the locals of a Load that is not running.  Kept for the properties: stage
\* (how far the call got), gets (the GET requests it issued), pre (the slots
\* and Version at the call), prevOK and prevTag (whether the call before it
\* returned no error after storing, and the token it had read), startedAt
\* (the clock when the call was made; pre.LastRefresh is the field at the call),
\* added (the list of the direct Add that returned last) and lenBefore (the
\* populated slots when that Add took the lock)
IdleLoad ==
    [pc |-> "idle", caller |-> "none", ret |-> "none", stage |-> "none", tETag |-> "",
     found |-> 0, gets |-> 0, body |-> EmptyBody,
     pre |-> [values |-> EmptySlots, Version |-> "", LastRefresh |-> ZeroTime],
     startedAt |-> ZeroTime, prevOK |-> FALSE, prevTag |-> "", i |-> 0, buf |-> 0, fileIdx |-> 0, results |-> 0,
     collection |-> <<>>, aggI |-> 0, alive |-> FALSE, addI |-> 0, addresses |-> <<>>,
     added |-> <<>>, lenBefore |-> 0]

\* NewList(size), api.Health(list, refreshDuration) and the start of main
InitSized(mainPc, upstream, size) ==
    /\ values = [k \in 1..size |-> NilNet]
    /\ Version = ""
    /\ LastRefresh = ZeroTime
    /\ lock = [w |-> FALSE, r |-> 0]
    /\ now = Instant(1)
    /\ main = [pc |-> mainPc, timerAt |-> ZeroTime, loads |-> 0]
    /\ nextRefresh = TimeAdd(ZeroTime, RefreshSeconds)
    /\ health = [status |-> 0, at |-> ZeroTime, seen |-> ZeroTime]
    /\ bodies = upstream
    /\ ld = IdleLoad
    /\ err = "nil"
    /\ wk = [w \in Workers |-> IdleWorker]
    /\ ch = [w \in Workers |-> <<>>]
    /\ closed = [w \in Workers |-> FALSE]
    /\ rd = [r \in Readers |-> IdleReader]
    /\ gens = {[k \in 1..size |-> NilNet]}
    /\ slotsTag = ""

\* the start with a store of Capacity slots
InitWith(mainPc, upstream) == InitSized(mainPc, upstream, Capacity)

Running == main.pc # "crashed"

\* Contains and Len as functions of complete contents of the store
RECURSIVE ContainsFrom(_, _, _)
ContainsFrom(slots, ip, k) ==
    IF k > Len(slots) \/ slots[k] = NilNet THEN 0
    ELSE IF IPNetContains(slots[k], ip) THEN 1
    ELSE ContainsFrom(slots, ip, k + 1)

ContainsOf(slots, ip) == IF ip = NilIP THEN 0 ELSE ContainsFrom(slots, ip, 1)

RECURSIVE LenFrom(_, _)
LenFrom(slots, k) ==
    IF k > Len(slots) \/ slots[k] = NilNet THEN k - 1 ELSE LenFrom(slots, k + 1)

LenOf(slots) == LenFrom(slots, 1)

\* ip lies inside at least one range held by slots, wherever the range is
InAnyRange(slots, ip) ==
    \E k \in 1..Len(slots) : slots[k] # NilNet /\ IPNetContains(slots[k], ip)

\* the result of a call op(ip) on complete contents of the store
ResultOf(op, slots, ip) == IF op = "Len" THEN LenOf(slots) ELSE ContainsOf(slots, ip)

(***************************************************************************)
(* List.Add, statement by statement, under the write lock.                 *)
(***************************************************************************)
\* the complete contents Add leaves for a list of at most len(l.values) ranges
AddResult(addresses) ==
    [k \in 1..Len(values) |-> IF k <= Len(addresses) THEN addresses[k] ELSE NilNet]

\* l.lock.Lock() can return
CanLock == ~lock.w /\ lock.r = 0

\* l.lock.Lock(); var i int
AddLock ==
    /\ Running
    /\ ld.pc = "add"
    /\ CanLock
    /\ lock' = [lock EXCEPT !.w = TRUE]
    /\ ld' = [ld EXCEPT !.pc = "add_copy", !.addI = 1, !.lenBefore = LenOf(values)]
    /\ gens' = {values, AddResult(ld.addresses)}
    /\ rd' = [r \in Readers |->
                IF rd[r].pc = "scan"
                THEN [rd[r] EXCEPT !.overlap = TRUE, !.genResults =
                        @ \cup {ResultOf(rd[r].op, AddResult(ld.addresses), rd[r].ip)},
                        !.inRange = IF rd[r].op = "Contains"
                                    THEN @ \cup {InAnyRange(AddResult(ld.addresses), rd[r].ip)}
                                    ELSE @]
                ELSE IF rd[r].pc = "rlock"
                THEN [rd[r] EXCEPT !.overlap = TRUE]
                ELSE rd[r]]
    /\ UNCHANGED <<values, Version, LastRefresh, slotsTag, main, err, workerVars, serverVars>>

\* for ; i < len(addresses); i++ { l.values[i] = addresses[i] }: one iteration.
\* An index beyond the slots panics; the deferred Unlock runs and the
\* panic ends the process.
AddCopy ==
    /\ Running
    /\ ld.pc = "add_copy"
    /\ IF ld.addI > Len(ld.addresses)
       THEN /\ ld' = [ld EXCEPT !.pc = "add_clear"]
            /\ UNCHANGED <<values, lock, main, gens, slotsTag>>
       ELSE IF ld.addI > Len(values)
       THEN /\ lock' = [lock EXCEPT !.w = FALSE]
            /\ ld' = [ld EXCEPT !.pc = "panic", !.ret = "panic"]
            /\ main' = [main EXCEPT !.pc = "crashed"]
            /\ gens' = {values}
            /\ UNCHANGED <<values, slotsTag>>
       ELSE /\ values' = [values EXCEPT ![ld.addI] = ld.addresses[ld.addI]]
            /\ ld' = [ld EXCEPT !.addI = @ + 1]
            /\ slotsTag' = IF ld.caller = "load" THEN ld.tETag ELSE slotsTag
            /\ UNCHANGED <<lock, main, gens>>
    /\ UNCHANGED <<Version, LastRefresh, err, rd, workerVars, serverVars>>

\* an Add that returns after the copy loop, without the loop that clears the
\* slots behind the list
AddClearSkipped ==
    /\ Running
    /\ ld.pc = "add_clear"
    /\ lock' = [lock EXCEPT !.w = FALSE]
    /\ gens' = {values}
    /\ ld' = IF ld.caller = "load"
             THEN [ld EXCEPT !.pc = "version"]
             ELSE [IdleLoad EXCEPT !.caller = "direct", !.ret = "returned",
                                   !.added = ld.addresses,
                                   !.lenBefore = ld.lenBefore]
    /\ UNCHANGED <<values, slotsTag, Version, LastRefresh, main, err, rd, workerVars,
                   serverVars>>

\* for ; i < len(l.values); i++ { l.values[i] = nil }: one iteration, and
\* the deferred Unlock at the end
AddClear ==
    /\ Running
    /\ ld.pc = "add_clear"
    /\ IF ld.addI <= Len(values)
       THEN /\ values' = [values EXCEPT ![ld.addI] = NilNet]
            /\ ld' = [ld EXCEPT !.addI = @ + 1]
            /\ slotsTag' = IF ld.caller = "load" THEN ld.tETag ELSE slotsTag
            /\ UNCHANGED <<lock, gens>>
       ELSE /\ lock' = [lock EXCEPT !.w = FALSE]
            /\ gens' = {values}
            /\ ld' = IF ld.caller = "load"
                     THEN [ld EXCEPT !.pc = "version"]
                     ELSE [IdleLoad EXCEPT !.caller = "direct", !.ret = "returned",
                                           !.added = ld.addresses,
                                           !.lenBefore = ld.lenBefore]
            /\ UNCHANGED <<values, slotsTag>>
    /\ UNCHANGED <<Version, LastRefresh, main, err, rd, workerVars, serverVars>>

(***************************************************************************)
(* GitHubLoader.Load.                                                      *)
(***************************************************************************)
\* a return of Load: the locals go out of scope, the results stay
Return(l) ==
    [l EXCEPT !.pc = "idle", !.ret = "returned", !.i = 0, !.buf = 0, !.fileIdx = 0,
              !.aggI = 0, !.alive = FALSE, !.addI = 0, !.addresses = <<>>]

\* a Load that leaves LastRefresh alone when it is called
LoadStartNoStamp ==
    /\ ld.pc = "idle"
    /\ ld' = [IdleLoad EXCEPT !.pc = "head", !.caller = "load",
                              !.pre = [values |-> values, Version |-> Version,
                                       LastRefresh |-> LastRefresh],
                              !.startedAt = now,
                              !.prevOK = (ld.ret = "returned" /\ ld.stage = "stored" /\ err = "nil"),
                              !.prevTag = ld.tETag]
    /\ err' = "nil"
    /\ wk' = [w \in Workers |-> IdleWorker]
    /\ ch' = [w \in Workers |-> <<>>]
    /\ closed' = [w \in Workers |-> FALSE]
    /\ UNCHANGED <<values, Version, LastRefresh, lock, gens, slotsTag, rd, serverVars>>

\* the call: list.LastRefresh = time.Now()
LoadStart ==
    /\ ld.pc = "idle"
    /\ ld' = [IdleLoad EXCEPT !.pc = "head", !.caller = "load",
                              !.pre = [values |-> values, Version |-> Version,
                                       LastRefresh |-> LastRefresh],
                              !.startedAt = now,
                              !.prevOK = (ld.ret = "returned" /\ ld.stage = "stored" /\ err = "nil"),
                              !.prevTag = ld.tETag]
    /\ err' = "nil"
    /\ LastRefresh' = now
    /\ wk' = [w \in Workers |-> IdleWorker]
    /\ ch' = [w \in Workers |-> <<>>]
    /\ closed' = [w \in Workers |-> FALSE]
    /\ UNCHANGED <<values, Version, lock, gens, slotsTag, rd, serverVars>>

HeadOutcomes == {[ok |-> FALSE, etag |-> ""]} \cup {[ok |-> TRUE, etag |-> e] : e \in ETags}

\* a Load that stores the token as soon as it has read it
LoadHeadStoresVersion ==
    /\ Running
    /\ ld.pc = "head"
    /\ \E o \in HeadOutcomes :
          IF ~o.ok
          THEN /\ err' = "NetErr"
               /\ ld' = Return(ld)
               /\ UNCHANGED Version
          ELSE IF o.etag = Version
          THEN /\ err' = "UnchangedVersion"
               /\ ld' = Return([ld EXCEPT !.tETag = o.etag, !.stage = "head"])
               /\ UNCHANGED Version
          ELSE /\ err' = "nil"
               /\ ld' = [ld EXCEPT !.pc = "get", !.tETag = o.etag, !.stage = "head"]
               /\ Version' = o.etag
    /\ UNCHANGED <<values, LastRefresh, lock, gens, slotsTag, main, rd, workerVars, serverVars>>

\* http.Head, the ETag of the response and its comparison with list.Version
LoadHead ==
    /\ Running
    /\ ld.pc = "head"
    /\ \E o \in HeadOutcomes :
          IF ~o.ok
          THEN /\ err' = "NetErr"
               /\ ld' = Return(ld)
          ELSE IF o.etag = Version
          THEN /\ err' = "UnchangedVersion"
               /\ ld' = Return([ld EXCEPT !.tETag = o.etag, !.stage = "head"])
          ELSE /\ err' = "nil"
               /\ ld' = [ld EXCEPT !.pc = "get", !.tETag = o.etag, !.stage = "head"]
    /\ UNCHANGED <<storeVars, main, rd, workerVars, serverVars>>

\* http.Get and the allocation of buf and ibuf
LoadGet ==
    /\ Running
    /\ ld.pc = "get"
    /\ \/ /\ err' = "NetErr"
          /\ ld' = Return([ld EXCEPT !.gets = @ + 1])
       \/ \E b \in bodies :
             /\ err' = "nil"
             /\ ld' = [ld EXCEPT !.pc = "read", !.stage = "get", !.gets = @ + 1, !.body = b,
                                  !.i = 0, !.buf = 0]
    /\ UNCHANGED <<storeVars, main, rd, workerVars, serverVars>>

Min(a, b) == IF a < b THEN a ELSE b

\* what one resp.Body.Read(ibuf) can return when rem bytes of b are left
ReadOutcomes(b, rem) ==
    {[n |-> Min(c, rem), e |-> "nil"] : c \in {x \in b.chunks : rem > 0}}
    \cup {[n |-> 0, e |-> "EOF"] : x \in {y \in {0} : rem = 0}}
    \cup {[n |-> rem, e |-> "EOF"] : x \in {y \in {0} : b.eofWithData /\ rem > 0 /\ rem <= ReadBufSize}}
    \cup {[n |-> 0, e |-> "ReadErr"] : x \in {y \in {0} : b.readErr /\ rem > 0 /\ rem < b.len}}

\* the condition of the read loop: for i := 0; i < maxDownloadBytes;
ReadMore(i) == i < maxDownloadBytes

\* one iteration of the read loop, or its exit
LoadRead ==
    /\ Running
    /\ ld.pc = "read"
    /\ IF ~ReadMore(ld.i)
       THEN /\ ld' = [ld EXCEPT !.pc = "close"]
            /\ UNCHANGED err
       ELSE \E o \in ReadOutcomes(ld.body, ld.body.len - ld.buf) :
               IF o.e = "EOF" /\ o.n = 0
               THEN /\ err' = o.e
                    /\ ld' = [ld EXCEPT !.pc = "close"]
               ELSE IF o.e # "nil"
               THEN /\ err' = o.e
                    /\ ld' = Return(ld)
               ELSE /\ err' = o.e
                    /\ ld' = [ld EXCEPT !.buf = @ + o.n, !.i = @ + o.n]
    /\ UNCHANGED <<storeVars, main, rd, workerVars, serverVars>>

\* copied := buf.Len(); resp.Body.Close(); zip.NewReader(reader, copied)
LoadClose ==
    /\ Running
    /\ ld.pc = "close"
    /\ IF ld.body.closeErr
       THEN /\ err' = "CloseErr"
            /\ ld' = Return(ld)
       ELSE IF ld.buf # ld.body.zipLen
       THEN /\ err' = "ZipErr"
            /\ ld' = Return(ld)
       ELSE /\ err' = "nil"
            /\ ld' = [ld EXCEPT !.pc = "open", !.stage = "zip", !.fileIdx = 1, !.results = 0]
    /\ UNCHANGED <<storeVars, main, rd, workerVars, serverVars>>

\* one iteration of the loop over zipReader.File: the filters, file.Open,
\* the channel and the go statement; after the last entry, the allocation
\* of collection
LoadOpen ==
    /\ Running
    /\ ld.pc = "open"
    /\ IF ld.fileIdx > Len(ld.body.files)
       THEN /\ ld' = [ld EXCEPT !.pc = "agg", !.collection = <<>>, !.aggI = 1, !.alive = FALSE]
            /\ UNCHANGED <<err, workerVars>>
       ELSE LET file == ld.body.files[ld.fileIdx]
                w == ld.results + 1
            IN  IF ~Matches(file)
                THEN /\ ld' = [ld EXCEPT !.fileIdx = @ + 1]
                     /\ UNCHANGED <<err, workerVars>>
                ELSE IF ~file.openOK
                THEN /\ err' = "OpenErr"
                     /\ ld' = [ld EXCEPT !.fileIdx = @ + 1]
                     /\ UNCHANGED workerVars
                ELSE /\ err' = "nil"
                     /\ ld' = [ld EXCEPT !.fileIdx = @ + 1, !.results = w]
                     /\ wk' = [wk EXCEPT ![w] = [pc |-> "scan", file |-> ld.fileIdx,
                                                 line |-> 1, addr |-> NilNet,
                                                 sent |-> <<>>]]
                     /\ ch' = [ch EXCEPT ![w] = <<>>]
                     /\ closed' = [closed EXCEPT ![w] = FALSE]
    /\ UNCHANGED <<storeVars, main, rd, serverVars>>

\* an aggregation loop whose default case does not set alive
LoadPollNoDefault ==
    /\ Running
    /\ ld.pc = "agg"
    /\ ld.aggI <= ld.results
    /\ IF ch[ld.aggI] # <<>>
       THEN /\ ld' = [ld EXCEPT !.collection = Append(@, Head(ch[ld.aggI])),
                                !.alive = TRUE, !.aggI = @ + 1]
            /\ ch' = [ch EXCEPT ![ld.aggI] = Tail(@)]
       ELSE /\ ld' = [ld EXCEPT !.aggI = @ + 1]
            /\ UNCHANGED ch
    /\ UNCHANGED <<storeVars, main, err, rd, wk, closed, serverVars>>

\* one select of the aggregation loop on results[i]
LoadPoll ==
    /\ Running
    /\ ld.pc = "agg"
    /\ ld.aggI <= ld.results
    /\ IF ch[ld.aggI] # <<>>
       THEN /\ ld' = [ld EXCEPT !.collection = Append(@, Head(ch[ld.aggI])),
                                !.alive = TRUE, !.aggI = @ + 1]
            /\ ch' = [ch EXCEPT ![ld.aggI] = Tail(@)]
       ELSE IF closed[ld.aggI]
       THEN /\ ld' = [ld EXCEPT !.aggI = @ + 1]
            /\ UNCHANGED ch
       ELSE /\ ld' = [ld EXCEPT !.alive = TRUE, !.aggI = @ + 1]
            /\ UNCHANGED ch
    /\ UNCHANGED <<storeVars, main, err, rd, wk, closed, serverVars>>

\* the end of one pass over the channels: if !alive { break }, then
\* found = len(collection) and the call list.Add(collection)
LoadPollEnd ==
    /\ Running
    /\ ld.pc = "agg"
    /\ ld.aggI > ld.results
    /\ IF ld.alive
       THEN ld' = [ld EXCEPT !.aggI = 1, !.alive = FALSE]
       ELSE ld' = [ld EXCEPT !.pc = "add", !.found = Len(ld.collection),
                             !.addresses = ld.collection]
    /\ UNCHANGED <<storeVars, main, err, rd, workerVars, serverVars>>

\* a Load that returns without storing the token
LoadKeepsVersion ==
    /\ Running
    /\ ld.pc = "version"
    /\ ld' = Return([ld EXCEPT !.stage = "stored"])
    /\ UNCHANGED <<storeVars, main, err, rd, workerVars, serverVars>>

\* list.Version = tETag; return
LoadSetVersion ==
    /\ Running
    /\ ld.pc = "version"
    /\ Version' = ld.tETag
    /\ ld' = Return([ld EXCEPT !.stage = "stored"])
    /\ UNCHANGED <<values, LastRefresh, lock, gens, slotsTag, main, err, rd,
                   workerVars, serverVars>>

(***************************************************************************)
(* The worker goroutine of one archive entry.  It assigns the result of    *)
(* parseAddress to the err of Load and tests it in the next statement.     *)
(* err is written without synchronisation by every worker and by the       *)
(* entry loop of Load: the assignment and the test are separate steps, so  *)
(* that every order of the racing accesses is a behaviour.                 *)
(***************************************************************************)
Lines(w) == ld.body.files[wk[w].file].lines

\* a worker that ends without closing its channel
WorkerScanNoClose(w) ==
    /\ Running
    /\ wk[w].pc = "scan"
    /\ IF wk[w].line > Len(Lines(w))
       THEN /\ wk' = [wk EXCEPT ![w].pc = "done"]
            /\ UNCHANGED <<err, closed>>
       ELSE IF Lines(w)[wk[w].line].kind = "comment"
       THEN /\ wk' = [wk EXCEPT ![w].line = @ + 1]
            /\ UNCHANGED <<err, closed>>
       ELSE LET p == parseAddress(Lines(w)[wk[w].line])
            IN  /\ wk' = [wk EXCEPT ![w].pc = "check", ![w].addr = p.net]
                /\ err' = p.err
                /\ UNCHANGED closed
    /\ UNCHANGED <<storeVars, main, ld, rd, ch, serverVars>>

\* scn.Scan(), the comment test and addr, err = parseAddress(line); at the
\* end of the file the deferred close(ch)
WorkerScan(w) ==
    /\ Running
    /\ wk[w].pc = "scan"
    /\ IF wk[w].line > Len(Lines(w))
       THEN /\ wk' = [wk EXCEPT ![w].pc = "done"]
            /\ closed' = [closed EXCEPT ![w] = TRUE]
            /\ UNCHANGED err
       ELSE IF Lines(w)[wk[w].line].kind = "comment"
       THEN /\ wk' = [wk EXCEPT ![w].line = @ + 1]
            /\ UNCHANGED <<err, closed>>
       ELSE LET p == parseAddress(Lines(w)[wk[w].line])
            IN  /\ wk' = [wk EXCEPT ![w].pc = "check", ![w].addr = p.net]
                /\ err' = p.err
                /\ UNCHANGED closed
    /\ UNCHANGED <<storeVars, main, ld, rd, ch, serverVars>>

\* if err != nil { log; continue }
WorkerCheck(w) ==
    /\ Running
    /\ wk[w].pc = "check"
    /\ IF err # "nil"
       THEN wk' = [wk EXCEPT ![w].pc = "scan", ![w].line = @ + 1]
       ELSE wk' = [wk EXCEPT ![w].pc = "send"]
    /\ UNCHANGED <<storeVars, main, ld, err, rd, ch, closed, serverVars>>

\* ch <- addr
WorkerSend(w) ==
    /\ Running
    /\ wk[w].pc = "send"
    /\ Len(ch[w]) < ChanCap
    /\ ch' = [ch EXCEPT ![w] = Append(@, wk[w].addr)]
    /\ wk' = [wk EXCEPT ![w].pc = "scan", ![w].line = @ + 1,
                         ![w].sent = Append(@, wk[w].addr)]
    /\ UNCHANGED <<storeVars, main, ld, err, rd, closed, serverVars>>

(***************************************************************************)
(* The readers of the store: List.Contains and List.Len, slot by slot      *)
(* under the read lock.                                                    *)
(***************************************************************************)
\* a reader that does not wait for the writer
CanRLockUnlocked == TRUE

\* l.lock.RLock() can return
CanRLock == ~lock.w

Serving == main.pc \in {"serve", "refresh", "harness"}

\* the call of Contains: if ip == nil { return false }
ContainsCall(r, ip) ==
    /\ Running /\ Serving
    /\ rd[r].pc \in {"idle", "ret"}
    /\ rd' = [rd EXCEPT ![r] =
                IF ip = NilIP
                THEN [IdleReader EXCEPT !.pc = "ret", !.op = "Contains", !.genResults = {0},
                                        !.inRange = {FALSE}]
                ELSE [IdleReader EXCEPT !.pc = "rlock", !.op = "Contains", !.ip = ip]]
    /\ UNCHANGED <<storeVars, main, ld, err, workerVars, serverVars>>

\* the call of Len
LenCall(r) ==
    /\ Running /\ Serving
    /\ rd[r].pc \in {"idle", "ret"}
    /\ rd' = [rd EXCEPT ![r] = [IdleReader EXCEPT !.pc = "rlock", !.op = "Len"]]
    /\ UNCHANGED <<storeVars, main, ld, err, workerVars, serverVars>>

\* l.lock.RLock()
RLock(r) ==
    /\ Running
    /\ rd[r].pc = "rlock"
    /\ CanRLock
    /\ lock' = [lock EXCEPT !.r = @ + 1]
    /\ rd' = [rd EXCEPT ![r].pc = "scan", ![r].idx = 1,
                         ![r].genResults = {ResultOf(rd[r].op, g, rd[r].ip) : g \in gens},
                         ![r].inRange = IF rd[r].op = "Contains"
                                        THEN {InAnyRange(g, rd[r].ip) : g \in gens}
                                        ELSE {}]
    /\ UNCHANGED <<values, Version, LastRefresh, gens, slotsTag, main, ld, err,
                   workerVars, serverVars>>

\* a Contains that gives up at the first range that does not hold the address
ContainsStepFirstOnly(r) ==
    /\ Running
    /\ rd[r].pc = "scan" /\ rd[r].op = "Contains"
    /\ IF rd[r].idx > Len(values) \/ values[rd[r].idx] = NilNet
       THEN rd' = [rd EXCEPT ![r].pc = "ret", ![r].idx = 0, ![r].result = 0]
       ELSE IF IPNetContains(values[rd[r].idx], rd[r].ip)
       THEN rd' = [rd EXCEPT ![r].pc = "ret", ![r].idx = 0, ![r].result = 1]
       ELSE rd' = [rd EXCEPT ![r].pc = "ret", ![r].idx = 0, ![r].result = 0]
    /\ lock' = [lock EXCEPT !.r = @ - 1]
    /\ UNCHANGED <<values, Version, LastRefresh, gens, slotsTag, main, ld, err,
                   workerVars, serverVars>>

\* one iteration of for _, n := range l.values in Contains; a return runs
\* the deferred RUnlock
ContainsStep(r) ==
    /\ Running
    /\ rd[r].pc = "scan" /\ rd[r].op = "Contains"
    /\ IF rd[r].idx > Len(values) \/ values[rd[r].idx] = NilNet
       THEN /\ rd' = [rd EXCEPT ![r].pc = "ret", ![r].idx = 0, ![r].result = 0]
            /\ lock' = [lock EXCEPT !.r = @ - 1]
       ELSE IF IPNetContains(values[rd[r].idx], rd[r].ip)
       THEN /\ rd' = [rd EXCEPT ![r].pc = "ret", ![r].idx = 0, ![r].result = 1]
            /\ lock' = [lock EXCEPT !.r = @ - 1]
       ELSE /\ rd' = [rd EXCEPT ![r].idx = @ + 1]
            /\ UNCHANGED lock
    /\ UNCHANGED <<values, Version, LastRefresh, gens, slotsTag, main, ld, err,
                   workerVars, serverVars>>

\* one iteration of for ; i < len(l.values); i++ in Len
LenStep(r) ==
    /\ Running
    /\ rd[r].pc = "scan" /\ rd[r].op = "Len"
    /\ IF rd[r].idx > Len(values) \/ values[rd[r].idx] = NilNet
       THEN /\ rd' = [rd EXCEPT ![r].pc = "ret", ![r].idx = 0, ![r].result = rd[r].idx - 1]
            /\ lock' = [lock EXCEPT !.r = @ - 1]
       ELSE /\ rd' = [rd EXCEPT ![r].idx = @ + 1]
            /\ UNCHANGED lock
    /\ UNCHANGED <<values, Version, LastRefresh, gens, slotsTag, main, ld, err,
                   workerVars, serverVars>>

(***************************************************************************)
(* cmd/server.go: main, the refresher goroutine, the clock and the Health  *)
(* handler.                                                                *)
(***************************************************************************)
\* refreshDuration * time.Second
RefreshPeriod == RefreshSeconds

\* _, err = loader.Load(list): the first Load, made by main
MainFirstLoad ==
    /\ main.pc = "start"
    /\ main' = [main EXCEPT !.pc = "first", !.loads = 1]
    /\ LoadStart

\* the test of the first Load's error; then the refresher goroutine with its
\* timer and the HTTP server are started
MainServe ==
    /\ main.pc = "first"
    /\ ld.ret = "returned"
    /\ main' = IF err \in {"nil", "UnchangedVersion"}
               THEN [main EXCEPT !.pc = "serve", !.timerAt = TimeAddSeconds(now, RefreshPeriod)]
               ELSE [main EXCEPT !.pc = "exited"]
    /\ UNCHANGED <<storeVars, ld, err, rd, workerVars, serverVars>>

\* case <-refreshTimer.C: refreshTimer.Reset(...); loader.Load(list)
TimerFire ==
    /\ main.pc = "serve"
    /\ ~TimeAfter(main.timerAt, now)
    /\ main.loads < MaxLoads
    /\ main' = [main EXCEPT !.pc = "refresh", !.timerAt = TimeAddSeconds(now, RefreshPeriod),
                            !.loads = @ + 1]
    /\ LoadStart

\* the return of Load in the refresher: the result is logged
RefreshDone ==
    /\ main.pc = "refresh"
    /\ ld.ret = "returned"
    /\ main' = [main EXCEPT !.pc = "serve"]
    /\ UNCHANGED <<storeVars, ld, err, rd, workerVars, serverVars>>

\* case <-sigs: the refresher ends and main shuts the server down
Signal ==
    /\ main.pc = "serve"
    /\ main' = [main EXCEPT !.pc = "stopped"]
    /\ UNCHANGED <<storeVars, ld, err, rd, workerVars, serverVars>>

\* one second passes
Tick ==
    /\ now.s < MaxTime
    /\ now' = TimeAddSeconds(now, 1)
    /\ UNCHANGED <<storeVars, main, nextRefresh, health, bodies, ld, err, rd, workerVars>>

\* one second passes while the refresher waits for its timer
TickWaiting ==
    /\ main.pc = "serve"
    /\ Tick

\* the status the handler answers with for the LastRefresh it read
HealthStatus(lastRefresh) ==
    IF TimeEqual(lastRefresh, nextRefresh) \/ TimeAfter(lastRefresh, nextRefresh)
    THEN 200 ELSE 400

\* one request to the handler returned by api.Health; its unsynchronised
\* read of l.LastRefresh yields the value of the last assignment
HealthRequest ==
    /\ main.pc \in {"serve", "refresh"}
    /\ LET lastRefresh == LastRefresh
       IN  /\ nextRefresh' = IF HealthStatus(lastRefresh) = 200 THEN lastRefresh ELSE nextRefresh
           /\ health' = [status |-> HealthStatus(lastRefresh), at |-> now, seen |-> lastRefresh]
    /\ UNCHANGED <<storeVars, main, now, bodies, ld, err, rd, workerVars>>

\* a direct call of Add by a task that owns the store
AddCall(addresses) ==
    /\ main.pc = "harness"
    /\ ld.pc = "idle"
    /\ ld' = [IdleLoad EXCEPT !.pc = "add", !.caller = "direct", !.addresses = addresses]
    /\ UNCHANGED <<storeVars, main, err, rd, workerVars, serverVars>>

(***************************************************************************)
(* Specifications.                                                         *)
(***************************************************************************)
Net1 == parseAddress(Good1).net
Net2 == parseAddress(Good2).net

\* the lists handed to Add by direct calls: no nil, at most Capacity ranges
AddInputs == UNION {[1..n -> {Net1, Net2}] : n \in 0..Capacity}

LoadBodies == {MixedBody, UnopenableBody, CleanBody, TwoFileBody, OverflowBody, EmptyBody,
               CorruptBody, BrokenBody, EOFDataBody, CloseErrBody}

AddSteps == AddLock \/ AddCopy \/ AddClear

LoadSteps ==
    \/ LoadHead \/ LoadGet \/ LoadRead \/ LoadClose \/ LoadOpen
    \/ LoadPoll \/ LoadPollEnd \/ LoadSetVersion
    \/ \E w \in Workers : WorkerScan(w) \/ WorkerCheck(w) \/ WorkerSend(w)

ReaderSteps ==
    \E r \in Readers :
        \/ \E ip \in IPs : ContainsCall(r, ip)
        \/ LenCall(r)
        \/ RLock(r)
        \/ ContainsStep(r)
        \/ LenStep(r)

\* the refresh pipeline driven by main and the refresher
Init == InitWith("start", LoadBodies)
Next == MainFirstLoad \/ MainServe \/ TimerFire \/ RefreshDone \/ TickWaiting
          \/ LoadSteps \/ AddSteps
Spec == Init /\ [][Next]_vars

\* the addresses and prefix lengths written on the lines handed to
\* parseAddress: 4-byte and 16-byte addresses, one of each with a field out
\* of range; no prefix, and prefixes up to one more than either width
Loopback6 == [k \in 1..16 |-> IF k = 16 THEN 1 ELSE 0]
Doc6 == [k \in 1..16 |-> IF k = 1 THEN 32 ELSE IF k = 2 THEN 1 ELSE IF k = 3 THEN 13
                          ELSE IF k = 4 THEN 184 ELSE IF k = 16 THEN 1 ELSE 0]
Bad6 == [k \in 1..16 |-> IF k = 16 THEN 256 ELSE 0]
ParseAddrs == {<<192, 168, 0, 0>>, <<127, 0, 0, 1>>, <<127, 0, 0, 256>>, Loopback6, Doc6, Bad6}
ParsePrefixes == {NoPrefix, 0, 8, 24, 32, 33, 64, 128, 129}
ParseInputs == {AddrLine(o, p) : o \in ParseAddrs, p \in ParsePrefixes} \cup {TextLine}

\* one archive per line: a single matching file that holds the line
ParseBodies ==
    {Body(700, 700, << Entry(<<"level1", ".netset">>, FALSE, TRUE, <<l>>) >>) : l \in ParseInputs}

\* one Load of a file with one line: the worker applies parseAddress to it
InitParse == InitWith("start", ParseBodies)
NextParse == MainFirstLoad \/ MainServe \/ LoadSteps \/ AddSteps
SpecParse == InitParse /\ [][NextParse]_vars

\* one matching file with one well-formed line more than its channel buffers
FullChannelBody ==
    Body(700, 700,
         << Entry(<<"level1", ".netset">>, FALSE, TRUE, [k \in 1..(ChanCap + 1) |-> Good1]) >>)

\* the next statement of the goroutine that runs Load, and of a worker
LoaderStep ==
    \/ LoadHead \/ LoadGet \/ LoadRead \/ LoadClose \/ LoadOpen
    \/ LoadPoll \/ LoadPollEnd \/ LoadSetVersion \/ AddSteps

WorkerStep(w) == WorkerScan(w) \/ WorkerCheck(w) \/ WorkerSend(w)

\* what the Go scheduler guarantees: a goroutine that can take a step is not
\* left waiting forever.  A worker blocked in ch <- addr cannot take a step
\* until the aggregation loop has received from its channel.
Fairness == WF_vars(LoaderStep) /\ \A w \in Workers : WF_vars(WorkerStep(w))

\* one Load under a fair scheduler, into a store with room for every line:
\* archives without entries, with two files, and with a file longer than
\* the buffer of its channel
InitLive == InitSized("start", {EmptyBody, TwoFileBody, FullChannelBody}, ChanCap + 1)
NextLive == MainFirstLoad \/ MainServe \/ LoadSteps \/ AddSteps
SpecLive == InitLive /\ [][NextLive]_vars /\ Fairness

\* the store under direct Add calls and concurrent readers
InitStore == InitWith("harness", {})
NextStore == (\E a \in AddInputs : AddCall(a)) \/ AddSteps \/ ReaderSteps
SpecStore == InitStore /\ [][NextStore]_vars

\* one Load of a body longer than maxDownloadBytes
InitDownload == InitWith("start", {HugeBody, HugeJunkBody, CleanBody})
NextDownload == MainFirstLoad \/ MainServe \/ LoadSteps \/ AddSteps
SpecDownload == InitDownload /\ [][NextDownload]_vars

\* the server with its health endpoint while time passes
InitHealth == InitWith("start", {CleanBody})
NextHealth == MainFirstLoad \/ MainServe \/ TimerFire \/ RefreshDone \/ Signal \/ Tick
                \/ HealthRequest \/ LoadSteps \/ AddSteps
SpecHealth == InitHealth /\ [][NextHealth]_vars

(***************************************************************************)
(* Properties.                                                             *)
(***************************************************************************)

\* C1 (SpecStore): every call of Contains or Len that has returned returned
\* what it returns on one complete generation of the store that was current
\* while the call held the lock: the contents before an Add or the contents
\* after it, never a mix of both.
ReadersSeeOneGeneration ==
    \A r \in Readers : rd[r].pc = "ret" => rd[r].result \in rd[r].genResults

\* C1 witness: a Contains call during which an Add took the write lock
\* returned true on a store from which the next Add, already called, removes
\* the range
ReaderReturnedDuringAdd ==
    \E r \in Readers :
        /\ rd[r].pc = "ret" /\ rd[r].op = "Contains" /\ rd[r].result = 1
        /\ rd[r].overlap
        /\ ld.pc = "add"
        /\ ContainsOf(AddResult(ld.addresses), rd[r].ip) = 0

\* a Load that has run to its last statement and returned
Stored == ld.caller = "load" /\ ld.ret = "returned" /\ ld.stage = "stored"

\* the address written on a line, as a net.IP
LineIP(b, fk) == b.files[fk[1]].lines[fk[2]].octets

\* C2 (Spec): a Load whose HEAD, GET and archive parse succeeded returns found
\* equal to the number of well-formed address lines of the matching files,
\* and, when found is at most Capacity, Contains is then true for the address
\* of every one of those lines.
FoundCountsWellFormedLines ==
    Stored =>
        /\ ld.found = Cardinality(WellFormedLines(ld.body))
        /\ ld.found <= Capacity =>
              \A fk \in WellFormedLines(ld.body) : ContainsOf(values, LineIP(ld.body, fk)) = 1

\* C3 (Spec): a Load whose HEAD, GET, body read and archive parse succeeded
\* returns a nil error, whatever lines fail to parse and entries fail to open.
ParseErrorsNeverSurface == Stored => err = "nil"

\* C4 (Spec): whenever the write lock is free, no populated slot follows a nil
\* slot.
SlotsContiguous ==
    ~lock.w => \A k \in 1..(Capacity - 1) : values[k] = NilNet => values[k + 1] = NilNet

\* the errors of the HEAD request, the GET request, a body read and the
\* archive parse
FetchErrors == {"NetErr", "ReadErr", "EOF", "ZipErr"}

\* C5 (Spec): a Load that returned an error of the HEAD request, the GET
\* request, a body read or the archive parse left the slots and Version as
\* they were when it was called.
FailedLoadKeepsStore ==
    (ld.caller = "load" /\ ld.ret = "returned" /\ err \in FetchErrors) =>
        /\ values = ld.pre.values
        /\ Version = ld.pre.Version

\* C5 witness: a Load of a store populated by an earlier Load failed at the
\* archive parse
FailedLoadOfPopulatedStore ==
    /\ ld.caller = "load" /\ ld.ret = "returned" /\ err = "ZipErr"
    /\ values # EmptySlots /\ Version # ""

\* C6 (Spec): when the Load before returned no error after storing token T
\* and the HEAD of this Load read T again, this Load goes no further than the
\* HEAD: it returns UnchangedVersion, has issued no GET, and the slots and
\* Version are as they were when it was called.
UnchangedVersionShortCircuits ==
    (ld.caller = "load" /\ ld.prevOK /\ ld.stage # "none" /\ ld.tETag = ld.prevTag) =>
        /\ ld.ret = "returned" /\ ld.stage = "head"
        /\ err = "UnchangedVersion"
        /\ ld.gets = 0
        /\ values = ld.pre.values
        /\ Version = ld.pre.Version

\* C6 witness: a second Load of a populated store read the token of the first
\* Load and returned UnchangedVersion
SecondLoadUnchanged ==
    /\ ld.caller = "load" /\ ld.prevOK /\ ld.ret = "returned"
    /\ ld.tETag = ld.prevTag /\ err = "UnchangedVersion"
    /\ values # EmptySlots

\* C7 (Spec): whenever the write lock is free, so that a reader can look at
\* the slots, Version is the token of the refresh that wrote the slots.
VersionNoOlderThanSlots == (Running /\ ~lock.w) => Version = slotsTag

\* C8 (Spec): a Load that found more ranges than the store has slots does not
\* crash in Add.
OverflowIsDropped == ld.found > Capacity => ld.ret # "panic"

\* C9 (SpecDownload): a Load whose response body is longer than
\* maxDownloadBytes does not get past the read loop, and leaves the slots as
\* they were.
OversizeBodyFailsDownload ==
    (ld.caller = "load" /\ ld.gets > 0 /\ ld.body.len > maxDownloadBytes) =>
        /\ ld.pc \in {"read", "idle"}
        /\ ld.stage = "get"
        /\ values = ld.pre.values

\* C10 (SpecHealth): the health endpoint answers 200 only when the
\* LastRefresh it read is no older than one refresh interval at the time of
\* the request; later requests are answered 400.
HealthyOnlyWhenFresh ==
    health.status = 200 =>
        ~TimeAfter(health.at, TimeAddSeconds(health.seen, RefreshPeriod))

\* C11 (SpecHealth): during and after every call of Load, whatever it returns,
\* LastRefresh is the time at which that call was made, and it is not earlier
\* than LastRefresh was before the call.
LastRefreshIsAttemptStart ==
    ld.caller = "load" =>
        /\ TimeEqual(LastRefresh, ld.startedAt)
        /\ ~TimeAfter(ld.pre.LastRefresh, LastRefresh)

\* C11 witness: a refresh that started later than the first Load returned an
\* error, and LastRefresh moved forward to its start
FailedRefreshMovedLastRefresh ==
    /\ ld.caller = "load" /\ ld.ret = "returned" /\ err = "NetErr"
    /\ ld.pre.LastRefresh # ZeroTime
    /\ TimeAfter(LastRefresh, ld.pre.LastRefresh)

\* C12 (Spec): a Load whose HEAD response carried no version token does not
\* return UnchangedVersion, and has issued a GET by the time it returns; the
\* first Load of a new store is one such call.
AbsentTokenAlwaysRefetches ==
    (ld.caller = "load" /\ ld.stage # "none" /\ ld.tETag = "") =>
        /\ err # "UnchangedVersion"
        /\ ld.ret = "returned" => ld.gets > 0

\* C13 (SpecStore): every call of Contains that has returned returned true
\* iff the address lies inside at least one range of a list last added (a
\* generation current while the call held the lock), wherever in the list
\* the range is; on a store never populated or replaced with the empty list
\* that is false, and the call returns false for a nil address.
ContainsIffInSomeRange ==
    \A r \in Readers :
        (rd[r].pc = "ret" /\ rd[r].op = "Contains") =>
            /\ (rd[r].result = 1) \in rd[r].inRange
            /\ rd[r].ip = NilIP => rd[r].result = 0

\* C13 witness: with no Add running, a Contains call returned true for an
\* address that the first range of the store does not hold and the second does
ContainsFoundInSecondRange ==
    \E r \in Readers :
        /\ rd[r].pc = "ret" /\ rd[r].op = "Contains" /\ rd[r].result = 1
        /\ ~rd[r].overlap /\ ld.pc = "idle"
        /\ values[1] # NilNet /\ ~IPNetContains(values[1], rd[r].ip)
        /\ values[2] # NilNet /\ IPNetContains(values[2], rd[r].ip)

\* C14 (SpecStore): when a direct Add of a list of at most Capacity ranges
\* has returned, Len is the length of that list, the slots hold the list
\* followed by nil slots only, and Contains is true for no address outside
\* the ranges of that list.
AddReplacesEverything ==
    (ld.caller = "direct" /\ ld.ret = "returned") =>
        LET n == Len(ld.added)
        IN  /\ LenOf(values) = n
            /\ \A k \in 1..Capacity : values[k] = IF k <= n THEN ld.added[k] ELSE NilNet
            /\ \A ip \in IPs :
                  ContainsOf(values, ip) = 1 =>
                      \E k \in 1..n : IPNetContains(ld.added[k], ip)

\* C14 witness: an Add of one range returned on a store that held two ranges
\* when the Add took the lock
ShorterAddReturned ==
    /\ ld.caller = "direct" /\ ld.ret = "returned"
    /\ Len(ld.added) = 1 /\ ld.lenBefore = 2

\* the line a worker has just handed to parseAddress
ParsedLine(w) == Lines(w)[wk[w].line]

\* the address on the line has a field out of range, or the prefix written
\* on it exceeds the width of the address
Malformed(line) ==
    \/ \E k \in 1..Len(line.octets) : line.octets[k] > 255
    \/ line.prefix # NoPrefix /\ line.prefix > 8 * Len(line.octets)

\* C15 (SpecParse): parseAddress of an address without a prefix length yields
\* the narrowest range of the family, prefix 32 for a 4-byte address and
\* prefix 128 for a 16-byte address; with a prefix within the width of the
\* address it yields that prefix; it fails when the prefix exceeds the width
\* or a field of the address is out of range.
NoPrefixIsNarrowest ==
    \A w \in Workers :
        (wk[w].pc = "check" /\ ParsedLine(w).kind = "addr") =>
            LET line == ParsedLine(w)
                width == 8 * Len(line.octets)
            IN  IF Malformed(line)
                THEN wk[w].addr = NilNet /\ err = "ParseErr"
                ELSE /\ err = "nil"
                     /\ wk[w].addr.bits = width
                     /\ wk[w].addr.ones = IF line.prefix = NoPrefix THEN width ELSE line.prefix

Count(seq, v) == Cardinality({k \in 1..Len(seq) : seq[k] = v})

\* how often the workers 1..w have sent v
RECURSIVE SentCount(_, _)
SentCount(v, w) == IF w = 0 THEN 0 ELSE Count(wk[w].sent, v) + SentCount(v, w - 1)

\* the values a worker can send: a parsed range, or nil
Sendable == {NilNet} \cup {parseAddress(l).net : l \in {Good1, Good2, Good3}}
              \cup {parseAddress(AddrLine(<<10, 0, 0, k>>, NoPrefix)).net : k \in 1..(Capacity + 1)}

\* the aggregation loop of this Load has exited
Aggregated == ld.caller = "load" /\ ld.pc \in {"add", "add_copy", "add_clear", "version"}

\* C17 (Spec): once the aggregation loop has exited, the channel of every
\* worker is closed and empty, and the collection holds every value as often
\* as the workers sent it, no more and no less.
AggregationCollectsEverySend ==
    Aggregated =>
        /\ \A w \in 1..ld.results : closed[w] /\ ch[w] = <<>>
        /\ \A w \in Workers : \A k \in 1..Len(wk[w].sent) : wk[w].sent[k] \in Sendable
        /\ \A v \in Sendable : Count(ld.collection, v) = SentCount(v, ld.results)

\* C17 witness: the loop exited after two workers had each sent a value
AggregatedTwoWorkers ==
    /\ Aggregated /\ ld.pc = "add"
    /\ ld.results = 2
    /\ wk[1].sent # <<>> /\ wk[2].sent # <<>>
    /\ Len(ld.collection) >= 2

\* C18 (SpecLive): under a fair scheduler a Load that has started its
\* workers and reached the aggregation loop returns, and by then every worker
\* has left its last send, however full its channel was, and has closed its
\* channel.
WorkersAndLoadFinish ==
    (ld.pc = "agg") ~>
        (/\ ld.ret = "returned"
         /\ \A w \in 1..ld.results : wk[w].pc = "done" /\ closed[w])

\* C18 witness: a worker with a line left to send is blocked on its full
\* channel
WorkerBlockedOnFullChannel ==
    \E w \in Workers :
        /\ wk[w].pc = "send" /\ Len(ch[w]) = ChanCap
        /\ ld.pc = "agg"

\* C19 (SpecDownload): at every point of the read loop the number of body
\* bytes buffered is at most maxDownloadBytes.
BufferWithinCap == ld.buf <= maxDownloadBytes

\* C20 (Spec): a Load whose response body is shorter than maxDownloadBytes,
\* on a transport that reports nothing but the end of the stream, has
\* buffered every byte of the body when it leaves the read loop, and does not
\* return the end of the stream as its error.
ShortBodyFullyBuffered ==
    (/\ ld.caller = "load" /\ ld.stage = "get"
     /\ ld.body.len < maxDownloadBytes /\ ~ld.body.readErr) =>
        /\ ld.pc = "close" => ld.buf = ld.body.len
        /\ ld.ret = "returned" => err # "EOF"

====
